---- MODULE Spec2Model ----
(***************************************************************************)
(* Day-column event layout of react-big-calendar: getStyledEvents and its  *)
(* helpers (sort, slot projection, sibling/child classification, grouping, *)
(* styling), together with dates.merge.                                    *)
(*                                                                         *)
(* Conventions.                                                            *)
(*  - A date is an integer number of minutes on one time line; the day of  *)
(*    a date is date \div 1440 and its time of day is date % 1440.  The    *)
(*    layout compares dates at minute granularity (dates.lt and dates.diff *)
(*    with unit 'minutes'), and dates.diff removes the DST offset, so      *)
(*    seconds, milliseconds and DST are not represented.                   *)
(*  - Array indices are 0-based as in the source; a JavaScript array is a  *)
(*    TLA+ sequence read through At, and the sparse output array           *)
(*    styledEvents is a function whose domain is the set of written        *)
(*    indices.                                                             *)
(*  - A JavaScript number that is the result of a division is an exact     *)
(*    rational <<numerator, denominator>> in lowest terms with a positive  *)
(*    denominator; floating-point rounding is not represented.             *)
(*  - An event object is a record [id, start, end]; the properties the     *)
(*    layout adds to it (overlappingCount, groupStart, groupEnd,           *)
(*    groupNumber) live in meta[event], a function whose domain is the set *)
(*    of properties the object has.                                        *)
(***************************************************************************)
EXTENDS Integers, Sequences, FiniteSets, TLC

VARIABLES
    unsorted,      \* the events array as the caller passed it
    events,        \* the events array after sort (the same array, reordered)
    min,           \* helperArgs.min
    totalMin,      \* helperArgs.totalMin
    step,          \* helperArgs.step
    styledEvents,  \* the output array under construction / returned
    idx,           \* the driver cursor
    iterations,    \* iterations of the driver's loop run by this call
    cluster,       \* locals of the last driver iteration
    writes,        \* number of assignments styledEvents[k] = ... per index k
    meta,          \* properties added to the event objects
    calls,         \* number of getStyledEvents calls started
    result,        \* the classifier's answer for a pair of events
    pc             \* idle | loop | done | classified | sorted

vars == <<unsorted, events, min, totalMin, step, styledEvents, idx, iterations, cluster,
          writes, meta, calls, result, pc>>

(***************************************************************************)
(* Numbers                                                                 *)
(***************************************************************************)
Abs(x) == IF x < 0 THEN -x ELSE x

Min2(a, b) == IF a < b THEN a ELSE b

Max2(a, b) == IF a > b THEN a ELSE b

RECURSIVE Gcd(_, _)
Gcd(a, b) == IF b = 0 THEN a ELSE Gcd(b, a % b)

\* n/d in lowest terms with d > 0 (d # 0 is required)
Rat(n, d) ==
    LET s == IF d < 0 THEN -1 ELSE 1
        g == Gcd(Abs(n), Abs(d))
    IN  <<(s * n) \div g, (s * d) \div g>>

Num(n) == <<n, 1>>

RSub(a, b) == Rat(a[1] * b[2] - b[1] * a[2], a[2] * b[2])

RAdd(a, b) == Rat(a[1] * b[2] + b[1] * a[2], a[2] * b[2])

RMul(a, b) == Rat(a[1] * b[1], a[2] * b[2])

RDiv(a, b) == Rat(a[1] * b[2], a[2] * b[1])

RLe(a, b) == a[1] * b[2] <= b[1] * a[2]

RLt(a, b) == a[1] * b[2] < b[1] * a[2]

\* events[i] of a JavaScript array held as a sequence
At(arr, i) == arr[i + 1]

\* whether arr[i] is an element (not undefined)
Has(arr, i) == i \in 0..(Len(arr) - 1)

\* the index value read from an array position that does not exist
undefined == -1

(***************************************************************************)
(* dates.js                                                                *)
(***************************************************************************)
MINUTES_IN_DAY == 1440

startOfDay(date) == (date \div MINUTES_IN_DAY) * MINUTES_IN_DAY

timeOfDay(date) == date % MINUTES_IN_DAY

\* dates.merge(date, time): date's day with time's time of day
merge(date, time) == startOfDay(date) + timeOfDay(time)

\* dates.lt(a, b, 'minutes')
lt(a, b) == a < b

\* dates.diff(a, b, 'minutes') with the DST offset removed
diff(dateA, dateB) == Abs(dateA - dateB)

(***************************************************************************)
(* Slot projection                                                         *)
(***************************************************************************)
startsBefore(date, m) == lt(merge(m, date), m)

positionFromDate(date, m, total) ==
    IF startsBefore(date, m)
    THEN 0
    ELSE Min2(diff(m, merge(m, date)), total)

\* getSlot(event, startAccessor, min, totalMin) for an existing event
getStartSlot(event, h) == positionFromDate(event.start, h.min, h.totalMin)

\* getSlot(event, endAccessor, min, totalMin) for an existing event
getEndSlot(event, h) == positionFromDate(event.end, h.min, h.totalMin)

(***************************************************************************)
(* sort: ascending start, ties by descending end.  Array.prototype.sort    *)
(* with this comparator; elements the comparator calls equal keep their    *)
(* relative order.                                                         *)
(***************************************************************************)
\* variant: descending start
compareDescending(a, b) ==
    IF a.start = b.start
    THEN b.end - a.end
    ELSE b.start - a.start

compare(a, b) ==
    IF a.start = b.start
    THEN b.end - a.end
    ELSE a.start - b.start

RECURSIVE insertSorted(_, _)
insertSorted(sorted, e) ==
    IF sorted = <<>> THEN <<e>>
    ELSE IF compare(sorted[Len(sorted)], e) <= 0
         THEN Append(sorted, e)
         ELSE Append(insertSorted(SubSeq(sorted, 1, Len(sorted) - 1), e),
                     sorted[Len(sorted)])

RECURSIVE sortFrom(_, _)
sortFrom(sorted, rest) ==
    IF rest = <<>> THEN sorted
    ELSE sortFrom(insertSorted(sorted, Head(rest)), Tail(rest))

sort(evs) == sortFrom(<<>>, evs)

(***************************************************************************)
(* Relationship classifier.  h is helperArgs: [events, min, totalMin, step]*)
(***************************************************************************)
SIBLING_MINUTES == 30

\* variant: a difference of exactly 30 minutes still counts
isSiblingInclusive(idx1, idx2, h) ==
    IF ~Has(h.events, idx1) \/ ~Has(h.events, idx2)
    THEN FALSE
    ELSE Abs(getStartSlot(At(h.events, idx1), h)
             - getStartSlot(At(h.events, idx2), h)) <= SIBLING_MINUTES

isSibling(idx1, idx2, h) ==
    IF ~Has(h.events, idx1) \/ ~Has(h.events, idx2)
    THEN FALSE
    ELSE Abs(getStartSlot(At(h.events, idx1), h)
             - getStartSlot(At(h.events, idx2), h)) < SIBLING_MINUTES

\* getSlot of a missing event is undefined, and undefined > n, n > undefined
\* are both false
isChild(parentIdx, childIdx, h) ==
    IF isSibling(parentIdx, childIdx, h)
    THEN FALSE
    ELSE /\ Has(h.events, parentIdx)
         /\ Has(h.events, childIdx)
         /\ getEndSlot(At(h.events, parentIdx), h)
              > getStartSlot(At(h.events, childIdx), h)

(***************************************************************************)
(* Grouper                                                                 *)
(***************************************************************************)
\* the while loop of getSiblings; nextIdx is the cursor before ++nextIdx
RECURSIVE getSiblingsScan(_, _, _, _)
getSiblingsScan(i, nextIdx, siblings, h) ==
    IF isSibling(i, nextIdx + 1, h)
    THEN getSiblingsScan(i, nextIdx + 1, Append(siblings, nextIdx + 1), h)
    ELSE [siblings |-> siblings, nextIdx |-> nextIdx + 1]

getSiblings(i, h) == getSiblingsScan(i, i, <<>>, h).siblings

\* the inner while loop of getChildGroups
RECURSIVE childGroupScan(_, _, _, _)
childGroupScan(nextIdx, siblingIdx, childGroup, h) ==
    IF isSibling(nextIdx, siblingIdx + 1, h)
    THEN childGroupScan(nextIdx, siblingIdx + 1,
                        Append(childGroup, siblingIdx + 1), h)
    ELSE [childGroup |-> childGroup, siblingIdx |-> siblingIdx + 1]

\* the outer while loop of getChildGroups
RECURSIVE getChildGroupsScan(_, _, _, _, _)
getChildGroupsScan(i, nextIdx, groups, nbrOfColumns, h) ==
    IF isChild(i, nextIdx, h)
    THEN LET g == childGroupScan(nextIdx, nextIdx, <<nextIdx>>, h)
         IN  getChildGroupsScan(i, g.siblingIdx, Append(groups, g.childGroup),
                                Max2(nbrOfColumns, Len(g.childGroup)), h)
    ELSE [childGroups |-> groups, nbrOfChildColumns |-> nbrOfColumns,
          nextIdx |-> nextIdx]

getChildGroups(i, nextIdx, h) == getChildGroupsScan(i, nextIdx, <<>>, 0, h)

(***************************************************************************)
(* Layout engine                                                           *)
(***************************************************************************)
\* f with f[k] = v: an assignment to an object property or an array element
Put(f, k, v) == [x \in (DOMAIN f) \cup {k} |-> IF x = k THEN v ELSE f[x]]

\* event.prop = v
setProp(m, event, prop, v) == Put(m, event, Put(m[event], prop, v))

\* styledEvents[eventIdx] = entry, counted in writes
setStyled(s, eventIdx, entry) ==
    [s EXCEPT !.styledEvents = Put(s.styledEvents, eventIdx, entry),
              !.writes = Put(s.writes, eventIdx,
                             IF eventIdx \in DOMAIN s.writes
                             THEN s.writes[eventIdx] + 1 ELSE 1)]

\* variant: the end slot without the step floor
getYStylesNoFloor(i, h) ==
    LET event  == At(h.events, i)
        start  == getStartSlot(event, h)
        end    == getEndSlot(event, h)
        top    == RMul(RDiv(Num(start), Num(h.totalMin)), Num(100))
        bottom == RMul(RDiv(Num(end), Num(h.totalMin)), Num(100))
    IN  [top |-> top, height |-> RSub(bottom, top)]

getYStyles(i, h) ==
    LET event  == At(h.events, i)
        start  == getStartSlot(event, h)
        end    == Max2(getEndSlot(event, h), start + h.step)
        top    == RMul(RDiv(Num(start), Num(h.totalMin)), Num(100))
        bottom == RMul(RDiv(Num(end), Num(h.totalMin)), Num(100))
    IN  [top |-> top, height |-> RSub(bottom, top)]

isFirstSibling(siblingIdx) == siblingIdx = 0

isOnlyNestedElement(group) == Len(group) = 1

\* variant: the width divides by the siblings without the anchor
topLevelXStylesNoAnchor(siblings, siblingIdx) ==
    IF Len(siblings) # 0
    THEN LET width == RDiv(Num(100), Num(Len(siblings)))
         IN  [width |-> width,
              xOffset |-> IF isFirstSibling(siblingIdx)
                          THEN Num(0)
                          ELSE RMul(width, Num(siblingIdx))]
    ELSE [width |-> Num(100), xOffset |-> Num(0)]

\* width and xOffset of the top-level event at position siblingIdx of
\* [idx, ...siblings]
topLevelXStyles(siblings, siblingIdx) ==
    IF Len(siblings) # 0
    THEN LET siblingsNumber == Len(siblings) + 1
             width == RDiv(Num(100), Num(siblingsNumber))
         IN  [width |-> width,
              xOffset |-> IF isFirstSibling(siblingIdx)
                          THEN Num(0)
                          ELSE RMul(width, Num(siblingIdx))]
    ELSE [width |-> Num(100), xOffset |-> Num(0)]

\* the properties one top-level event gets
topLevelMeta(m, event, siblings, siblingIdx) ==
    IF Len(siblings) # 0
    THEN LET m1 == setProp(m, event, "overlappingCount", Len(siblings) + 1)
             m2 == setProp(m1, event, "groupStart", siblingIdx = 0)
         IN  setProp(m2, event, "groupEnd", siblingIdx = Len(siblings))
    ELSE m

\* one call of the callback of [idx, ...siblings].forEach
styleTopLevel(s, eventIdx, siblingIdx, siblings, h) ==
    LET event == At(h.events, eventIdx)
        x     == topLevelXStyles(siblings, siblingIdx)
        y     == getYStyles(eventIdx, h)
        s1    == [s EXCEPT !.meta = topLevelMeta(s.meta, event, siblings, siblingIdx)]
    IN  setStyled(s1, eventIdx,
                  [event |-> event,
                   style |-> [top |-> y.top, height |-> y.height,
                              width |-> x.width, xOffset |-> x.xOffset]])

\* [idx, ...siblings].forEach(...), from position siblingIdx on
RECURSIVE forEachTopLevel(_, _, _, _, _)
forEachTopLevel(s, i, siblingIdx, siblings, h) ==
    IF siblingIdx > Len(siblings) THEN s
    ELSE LET eventIdx == IF siblingIdx = 0 THEN i ELSE At(siblings, siblingIdx - 1)
         IN  forEachTopLevel(styleTopLevel(s, eventIdx, siblingIdx, siblings, h),
                             i, siblingIdx + 1, siblings, h)

offset == 3

nestedGroupOffset == 3

\* the while loop that moves a child group to a sibling of its parent
RECURSIVE reparentScan(_, _, _, _, _)
reparentScan(parentIdx, siblingIdx, siblings, first, h) ==
    LET sib == IF Has(siblings, siblingIdx) THEN At(siblings, siblingIdx)
               ELSE undefined
    IN  IF isChild(sib, first, h)
        THEN reparentScan(sib, siblingIdx + 1, siblings, first, h)
        ELSE [parentIdx |-> parentIdx, siblingIdx |-> siblingIdx]

\* width and xOffset of member i of a child group
childXStyles(parentStyle, group, groupIndex, i) ==
    LET parentWidth      == parentStyle.width
        parentXOffset    == parentStyle.xOffset
        groupNumber      == groupIndex + 1
        overlappingCount == Len(group)
    IN  IF isOnlyNestedElement(group)
        THEN [xOffset |-> Num(offset * groupNumber),
              width   |-> Num(100 - offset * groupNumber)]
        ELSE LET groupOffset == nestedGroupOffset * groupNumber
                 width == RSub(RDiv(RSub(parentWidth, Num(offset * groupIndex)),
                                    Num(overlappingCount)),
                               RDiv(Num(offset), Num(overlappingCount)))
                 childOffsetInGroup == RMul(width, Num(i))
             IN  [width   |-> width,
                  xOffset |-> RAdd(RAdd(parentXOffset, childOffsetInGroup),
                                   Num(groupOffset))]

\* the properties member i of a child group gets
childMeta(m, event, group, groupIndex, i) ==
    IF isOnlyNestedElement(group) THEN m
    ELSE LET m1 == setProp(m, event, "overlappingCount", Len(group))
             m2 == setProp(m1, event, "groupNumber", groupIndex + 1)
             m3 == setProp(m2, event, "groupStart", i = 0)
         IN  setProp(m3, event, "groupEnd", i = Len(group) - 1)

\* one call of the callback of group.forEach
styleChild(s, eventIdx, i, group, groupIndex, parentIdx, h) ==
    LET event == At(h.events, eventIdx)
        x     == childXStyles(s.styledEvents[parentIdx].style, group, groupIndex, i)
        y     == getYStyles(eventIdx, h)
        s1    == [s EXCEPT !.meta = childMeta(s.meta, event, group, groupIndex, i)]
    IN  setStyled(s1, eventIdx,
                  [event |-> event,
                   style |-> [top |-> y.top, height |-> y.height,
                              width |-> x.width, xOffset |-> x.xOffset]])

\* group.forEach(...), from member i on
RECURSIVE forEachChild(_, _, _, _, _, _)
forEachChild(s, i, group, groupIndex, parentIdx, h) ==
    IF i >= Len(group) THEN s
    ELSE forEachChild(styleChild(s, At(group, i), i, group, groupIndex, parentIdx, h),
                      i + 1, group, groupIndex, parentIdx, h)

\* childGroups.forEach(...), from group groupIndex on; s.parents and
\* s.reparentStops record each group's resolved parentIdx and the value of
\* siblingIdx when its while loop ended
RECURSIVE forEachGroup(_, _, _, _, _, _)
forEachGroup(s, i, groupIndex, siblings, childGroups, h) ==
    IF groupIndex >= Len(childGroups) THEN s
    ELSE LET group == At(childGroups, groupIndex)
             r     == reparentScan(i, 0, siblings, At(group, 0), h)
             s1    == forEachChild(s, 0, group, groupIndex, r.parentIdx, h)
             s2    == [s1 EXCEPT !.parents = Append(s1.parents, r.parentIdx),
                                 !.reparentStops = Append(s1.reparentStops, r.siblingIdx)]
         IN  forEachGroup(s2, i, groupIndex + 1, siblings, childGroups, h)

RECURSIVE sumLengths(_)
sumLengths(groups) ==
    IF groups = <<>> THEN 0 ELSE Len(Head(groups)) + sumLengths(Tail(groups))

\* variant: the cursor moves past the top-level events only
advanceTopLevelOnly(i, siblings, childGroups) ==
    i + 1 + Len(siblings)

\* variant: the cursor does not count the anchor
advanceWithoutAnchor(i, siblings, childGroups) ==
    i + Len(siblings) + sumLengths(childGroups)

\* idx += 1 + siblings.length + childGroups.reduce(...)
advance(i, siblings, childGroups) ==
    i + 1 + Len(siblings) + sumLengths(childGroups)

\* the body of the driver's while loop, from the state
\* [meta, styledEvents, writes] with the cursor at i
driverIteration(s, i, h) ==
    LET sc          == getSiblingsScan(i, i, <<>>, h)
        siblings    == getSiblings(i, h)
        cg          == getChildGroups(i, i + Len(siblings) + 1, h)
        childGroups == cg.childGroups
        s0 == [meta |-> s.meta, styledEvents |-> s.styledEvents,
               writes |-> s.writes, parents |-> <<>>, reparentStops |-> <<>>]
        s1 == forEachTopLevel(s0, i, 0, siblings, h)
        s2 == forEachGroup(s1, i, 0, siblings, childGroups, h)
    IN  [meta |-> s2.meta, styledEvents |-> s2.styledEvents, writes |-> s2.writes,
         idx |-> advance(i, siblings, childGroups),
         cluster |-> [anchor |-> i, siblings |-> siblings,
                      childGroups |-> childGroups, parents |-> s2.parents,
                      sibStop |-> sc.nextIdx, childStop |-> cg.nextIdx,
                      reparentStops |-> s2.reparentStops]]

\* the driver's while loop run to its end from cursor i
RECURSIVE driverLoop(_, _, _)
driverLoop(s, i, h) ==
    IF i < Len(h.events)
    THEN LET r == driverIteration(s, i, h)
         IN  driverLoop([meta |-> r.meta, styledEvents |-> r.styledEvents,
                         writes |-> r.writes], r.idx, h)
    ELSE s

\* the properties of the objects of evs: those m holds, none for a new object
withObjects(m, evs) ==
    [e \in (DOMAIN m) \cup {evs[k] : k \in DOMAIN evs} |->
        IF e \in DOMAIN m THEN m[e] ELSE <<>>]

\* one whole call on event objects whose properties are m
getStyledEvents(evs, w, m) ==
    LET h == [events |-> sort(evs), min |-> w.min, totalMin |-> w.totalMin,
              step |-> w.step]
    IN  driverLoop([meta |-> withObjects(m, evs), styledEvents |-> <<>>,
                    writes |-> <<>>], 0, h)

(***************************************************************************)
(* Bounds and inputs                                                       *)
(***************************************************************************)
\* longest events array passed to one call
MaxEvents == 5

\* calls that share event objects
MaxCalls == 2

\* longest events array of the calls that share event objects
MaxShared == 3

\* a crowded day: simultaneous top-level events, nested groups, group size
MaxTopLevel == 6

MaxGroups == 6

MaxGroupSize == 2

\* the event objects of the calls: start and end times as minutes of day 0
Pool ==
    {[id |-> 0, start |-> 0, end |-> 20], [id |-> 0, start |-> 0, end |-> 100],
     [id |-> 0, start |-> 30, end |-> 50], [id |-> 0, start |-> 30, end |-> 100],
     [id |-> 0, start |-> 40, end |-> 100],
     [id |-> 0, start |-> 70, end |-> 20], [id |-> 0, start |-> 70, end |-> 100]}

SharedPool == {e \in Pool : e.end = 100}

\* the visible windows: a whole day from midnight, and one hour from 00:20
\* of the next day, which clamps the events on both sides
Windows ==
    {[min |-> 0, totalMin |-> 1440, step |-> 30],
     [min |-> 1460, totalMin |-> 60, step |-> 15]}

DayWindow == [min |-> 0, totalMin |-> 1440, step |-> 30]

\* the arrays of at most n distinct elements of S
Arrangements(S, n) ==
    UNION {{a \in [1..k -> S] : \A i, j \in 1..k : i # j => a[i] # a[j]} : k \in 0..n}

RECURSIVE crowdedGroups(_, _, _)
crowdedGroups(g, k, acc) ==
    IF g = 0 THEN acc
    ELSE crowdedGroups(g - 1, k,
            [j \in 1..k |-> [id |-> 100 * g + j, start |-> 30 * g,
                             end |-> 30 * g + 30]] \o acc)

\* n events 00:00-23:30 and, nested under them, g groups of k events each,
\* the groups half an hour apart
Crowded(n, g, k) ==
    [j \in 1..n |-> [id |-> j, start |-> 0, end |-> 1410]]
        \o crowdedGroups(g, k, <<>>)

\* start times for the classifier: inside and outside the windows, and on
\* both sides of midnight
PairTimes == {0, 29, 30, 59, 60, 89, 90, 1430, 1459, 1460}

PairWindows ==
    {[min |-> 0, totalMin |-> 1440, step |-> 30],
     [min |-> 30, totalMin |-> 40, step |-> 10]}

\* events of two calendar days
SortPool == {[id |-> 0, start |-> s, end |-> s + 60] : s \in {0, 10, 40, 1445, 1480}}

\* the events arrays of one call, of the calls that share event objects,
\* and of the sorter
Inputs == Arrangements(Pool, MaxEvents)

SharedInputs == Arrangements(SharedPool, MaxShared)

SortInputs == Arrangements(SortPool, MaxEvents)

(***************************************************************************)
(* State machine                                                           *)
(***************************************************************************)
H == [events |-> events, min |-> min, totalMin |-> totalMin, step |-> step]

NoCluster ==
    [anchor |-> undefined, siblings |-> <<>>, childGroups |-> <<>>,
     parents |-> <<>>, sibStop |-> 0, childStop |-> 0, reparentStops |-> <<>>]

Init ==
    /\ unsorted = <<>>
    /\ events = <<>>
    /\ min = 0
    /\ totalMin = 1440
    /\ step = 30
    /\ styledEvents = <<>>
    /\ idx = 0
    /\ iterations = 0
    /\ cluster = NoCluster
    /\ writes = <<>>
    /\ meta = <<>>
    /\ calls = 0
    /\ result = FALSE
    /\ pc = "idle"

\* getStyledEvents up to the driver's while loop: sort, helperArgs,
\* styledEvents = [], idx = 0
Call(input, w) ==
    /\ unsorted' = input
    /\ events' = sort(input)
    /\ min' = w.min
    /\ totalMin' = w.totalMin
    /\ step' = w.step
    /\ styledEvents' = <<>>
    /\ idx' = 0
    /\ iterations' = 0
    /\ cluster' = NoCluster
    /\ writes' = <<>>
    /\ meta' = withObjects(meta, input)
    /\ calls' = calls + 1
    /\ pc' = "loop"
    /\ UNCHANGED result

\* one call on fresh event objects
CallOnce ==
    /\ pc = "idle"
    /\ \E input \in Inputs, w \in Windows : Call(input, w)

\* a call on event objects that earlier calls have annotated
CallShared ==
    /\ pc \in {"idle", "done"}
    /\ calls < MaxCalls
    /\ \E input \in SharedInputs, w \in Windows : Call(input, w)

\* a call on a crowded day
CallCrowded ==
    /\ pc = "idle"
    /\ \E n \in 1..MaxTopLevel, g \in 1..MaxGroups, k \in 1..MaxGroupSize :
          Call(Crowded(n, g, k), DayWindow)

\* one iteration of while (idx < events.length)
DriverIteration ==
    /\ pc = "loop"
    /\ idx < Len(events)
    /\ LET r == driverIteration([meta |-> meta, styledEvents |-> styledEvents,
                                 writes |-> writes], idx, H)
       IN  /\ meta' = r.meta
           /\ styledEvents' = r.styledEvents
           /\ writes' = r.writes
           /\ idx' = r.idx
           /\ iterations' = iterations + 1
           /\ cluster' = r.cluster
    /\ UNCHANGED <<unsorted, events, min, totalMin, step, calls, result, pc>>

\* the loop ends and styledEvents is returned
Return ==
    /\ pc = "loop"
    /\ ~(idx < Len(events))
    /\ pc' = "done"
    /\ UNCHANGED <<unsorted, events, min, totalMin, step, styledEvents, idx,
                   iterations, cluster, writes, meta, calls, result>>

Next == CallOnce \/ DriverIteration \/ Return

Spec == Init /\ [][Next]_vars

\* the steps of Next that run an iteration of the loop: only
\* DriverIteration counts an iteration, and it can run whenever the loop
\* condition holds
IterationStep ==
    /\ pc = "loop"
    /\ idx < Len(events)
    /\ iterations' = iterations + 1

\* a call is synchronous and nothing else runs: once it has started, its
\* loop keeps running and it returns when the loop ends
SpecLive ==
    Init /\ [][Next]_vars /\ WF_iterations(IterationStep) /\ WF_vars(Return)

NextCalls == CallShared \/ DriverIteration \/ Return

SpecCalls == Init /\ [][NextCalls]_vars

NextCrowded == CallCrowded \/ DriverIteration \/ Return

SpecCrowded == Init /\ [][NextCrowded]_vars

\* the classifier on a pair of events
InitPair ==
    /\ \E s1 \in PairTimes, s2 \in PairTimes :
          /\ unsorted = <<[id |-> 1, start |-> s1, end |-> s1 + 60],
                          [id |-> 2, start |-> s2, end |-> s2 + 60]>>
          /\ events = unsorted
    /\ \E w \in PairWindows : min = w.min /\ totalMin = w.totalMin /\ step = w.step
    /\ styledEvents = <<>>
    /\ idx = 0
    /\ iterations = 0
    /\ cluster = NoCluster
    /\ writes = <<>>
    /\ meta = <<>>
    /\ calls = 0
    /\ result = FALSE
    /\ pc = "pair"

Classify ==
    /\ pc = "pair"
    /\ result' = isSibling(0, 1, H)
    /\ pc' = "classified"
    /\ UNCHANGED <<unsorted, events, min, totalMin, step, styledEvents, idx,
                   iterations, cluster, writes, meta, calls>>

SpecSibling == InitPair /\ [][Classify]_vars

\* the sorter on events of several days
InitSort ==
    /\ unsorted \in SortInputs
    /\ events = unsorted
    /\ \E w \in Windows : min = w.min /\ totalMin = w.totalMin /\ step = w.step
    /\ styledEvents = <<>>
    /\ idx = 0
    /\ iterations = 0
    /\ cluster = NoCluster
    /\ writes = <<>>
    /\ meta = <<>>
    /\ calls = 0
    /\ result = FALSE
    /\ pc = "unsorted"

Sort ==
    /\ pc = "unsorted"
    /\ events' = sort(unsorted)
    /\ pc' = "sorted"
    /\ UNCHANGED <<unsorted, min, totalMin, step, styledEvents, idx, iterations,
                   cluster, writes, meta, calls, result>>

SpecSort == InitSort /\ [][Sort]_vars

(***************************************************************************)
(* Properties                                                              *)
(***************************************************************************)
Range(seq) == {seq[k] : k \in DOMAIN seq}

\* the indices one driver iteration covered: anchor, siblings, child groups
Consumed(c) ==
    {c.anchor} \cup Range(c.siblings)
        \cup UNION {Range(c.childGroups[g]) : g \in DOMAIN c.childGroups}

InCall == pc \in {"loop", "done"}

\* C1: the returned array has exactly one entry per input event and no
\* hole: at every point of a call the written indices are exactly those
\* before the cursor, each written once and holding the event at the same
\* position of the sorted array; at the return the cursor is the array's
\* length, and the sorted array holds the input's events, each once.
C1_OneEntryPerEvent ==
    InCall =>
        /\ DOMAIN styledEvents = 0..(idx - 1)
        /\ DOMAIN writes = DOMAIN styledEvents
        /\ \A k \in DOMAIN styledEvents :
              /\ writes[k] = 1
              /\ Has(events, k)
              /\ styledEvents[k].event = At(events, k)
        /\ Len(events) = Len(unsorted)
        /\ \A e \in Range(unsorted) :
              Cardinality({k \in DOMAIN events : events[k] = e})
                 = Cardinality({k \in DOMAIN unsorted : unsorted[k] = e})
        /\ pc = "done" => idx = Len(events)

\* a returned layout of five events placed by more than one driver
\* iteration, the last of them with a child group
C1_Witness ==
    /\ pc = "done"
    /\ Len(events) = MaxEvents
    /\ unsorted # events
    /\ cluster.anchor > 0
    /\ cluster.childGroups # <<>>

\* the empty input returns the empty array
C1_WitnessEmpty == pc = "done" /\ unsorted = <<>> /\ styledEvents = <<>>

\* C7: the top-level members of a cluster, n of them, are the n indices
\* from the anchor on; for n > 1 member k has width 100/n, xOffset k*100/n,
\* overlappingCount n, groupStart iff k = 0 and groupEnd iff k = n-1, so
\* the members tile [0, 100]; for n = 1 the anchor has width 100, xOffset 0.
C7_TopLevelPartition ==
    (InCall /\ cluster.anchor # undefined) =>
        LET n == Len(cluster.siblings) + 1
            a == cluster.anchor
        IN  /\ \A k \in 1..(n - 1) : At(cluster.siblings, k - 1) = a + k
            /\ \A k \in 0..(n - 1) :
                  LET st == styledEvents[a + k].style
                      m  == meta[At(events, a + k)]
                  IN  /\ st.width = Rat(100, n)
                      /\ st.xOffset = Rat(100 * k, n)
                      /\ k = 0 => st.xOffset = Num(0)
                      /\ k > 0 => st.xOffset
                                    = RAdd(styledEvents[a + k - 1].style.xOffset,
                                           styledEvents[a + k - 1].style.width)
                      /\ k = n - 1 => RAdd(st.xOffset, st.width) = Num(100)
                      /\ n > 1 =>
                            /\ m.overlappingCount = n
                            /\ m.groupStart = (k = 0)
                            /\ m.groupEnd = (k = n - 1)

\* a cluster of three top-level members, found after an earlier cluster
C7_Witness ==
    /\ InCall
    /\ Len(cluster.siblings) = 2
    /\ cluster.anchor > 0
    /\ styledEvents[cluster.anchor + 2].style.xOffset = Rat(200, 3)

\* C8: every styled event is at least one step high and never of negative
\* height.
C8_HeightFloor ==
    \A k \in DOMAIN styledEvents :
        /\ RLe(Rat(100 * step, totalMin), styledEvents[k].style.height)
        /\ RLe(Num(0), styledEvents[k].style.height)

\* styled events whose height is the floor: a nested one whose end slot
\* precedes its start slot, and a top-level one clamped to slot 0 at both
\* ends
C8_Witness ==
    /\ pc = "done"
    /\ \E k \in DOMAIN styledEvents :
          /\ getEndSlot(At(events, k), H) < getStartSlot(At(events, k), H)
          /\ \E g \in DOMAIN cluster.childGroups : k \in Range(cluster.childGroups[g])
          /\ styledEvents[k].style.height = Rat(100 * step, totalMin)
    /\ \E k \in DOMAIN styledEvents :
          /\ At(events, k).end > At(events, k).start
          /\ getEndSlot(At(events, k), H) = 0
          /\ getStartSlot(At(events, k), H) = 0
          /\ styledEvents[k].style.height = Rat(100 * step, totalMin)

\* C9: within a call every scan has stopped at or before the first index
\* past the end of its array and the cursor has not passed the end of the
\* events; every iteration of the driver moves the cursor forward; and a
\* call that has started returns.
C9_Terminates ==
    /\ [](InCall =>
            /\ idx <= Len(events)
            /\ cluster.sibStop <= Len(events)
            /\ cluster.childStop <= Len(events)
            /\ \A g \in DOMAIN cluster.reparentStops :
                  cluster.reparentStops[g] <= Len(cluster.siblings))
    /\ [][pc = "loop" => (idx' > idx \/ (idx >= Len(events) /\ pc' = "done"))]_vars
    /\ ((pc = "loop") ~> (pc = "done"))

\* a call returned after several iterations whose last child-group scan
\* stopped at the end of the events and whose reparenting scan stopped at
\* the end of a non-empty siblings array
C9_Witness ==
    /\ pc = "done"
    /\ cluster.anchor > 0
    /\ cluster.siblings # <<>>
    /\ cluster.childGroups # <<>>
    /\ cluster.childStop = Len(events)
    /\ \E g \in DOMAIN cluster.reparentStops :
          cluster.reparentStops[g] = Len(cluster.siblings)

\* C2: top, height, width and xOffset of every styled event are between 0
\* and 100.
C2_Percentages ==
    \A k \in DOMAIN styledEvents :
        \A f \in {"top", "height", "width", "xOffset"} :
            /\ RLe(Num(0), styledEvents[k].style[f])
            /\ RLe(styledEvents[k].style[f], Num(100))

\* the top-level events that are child-relation parents of event index c
ParentsAmong(c, cl) ==
    {p \in {cl.anchor} \cup Range(cl.siblings) : isChild(p, c, H)}

SetMax(S) == CHOOSE x \in S : \A y \in S : y <= x

\* C3: a child group sized from its parent's width and xOffset has as
\* parent the latest event among the anchor and its siblings that is a
\* child-relation parent of the group's first member.
C3_LatestParent ==
    (InCall /\ cluster.anchor # undefined) =>
        \A g \in DOMAIN cluster.childGroups :
            Len(cluster.childGroups[g]) > 1 =>
                cluster.parents[g]
                    = SetMax(ParentsAmong(cluster.childGroups[g][1], cluster))

\* C4: a driver iteration consumes every later event that is a child of
\* its anchor or of one of its siblings, and the anchor of an iteration is
\* a child of no event consumed before.
C4_MaximalCluster ==
    /\ (InCall /\ cluster.anchor # undefined) =>
          \A j \in (cluster.anchor + 1)..(Len(events) - 1) :
              ParentsAmong(j, cluster) # {} => j \in Consumed(cluster)
    /\ (pc = "loop" /\ idx < Len(events)) =>
          \A j \in 0..(idx - 1) : ~isChild(j, idx, H)

\* C6: after a call, the properties of each of its events are those the
\* call sets on an event object that had none.
C6_MetaFromLastCall ==
    pc = "done" =>
        LET alone == getStyledEvents(unsorted,
                         [min |-> min, totalMin |-> totalMin, step |-> step],
                         <<>>).meta
        IN  \A e \in Range(events) : meta[e] = alone[e]

\* whether a start time's time of day lies in the visible window
InWindow(date) ==
    /\ timeOfDay(min) <= timeOfDay(date)
    /\ timeOfDay(date) <= timeOfDay(min) + totalMin

PairStarts == <<events[1].start, events[2].start>>

SlotsNonDecreasing ==
    \A i, j \in DOMAIN events :
        i < j => getStartSlot(events[i], H) <= getStartSlot(events[j], H)

OneCalendarDay ==
    \A i, j \in DOMAIN unsorted :
        startOfDay(unsorted[i].start) = startOfDay(unsorted[j].start)

\* C10, as amended: when all events start on one calendar day, the start
\* slots are non-decreasing in the sorted order.
C10_SlotsSortedOneDay ==
    (pc = "sorted" /\ OneCalendarDay) => SlotsNonDecreasing

\* three events of one day that the sort reordered and whose slots differ
C10_Witness ==
    /\ pc = "sorted"
    /\ OneCalendarDay
    /\ Len(events) = 3
    /\ events # unsorted
    /\ getStartSlot(events[1], H) < getStartSlot(events[3], H)

\* C10 as stated: the start slots are non-decreasing in the sorted order
\* whatever calendar days the events start on.
C10_SlotsSortedAnyDay ==
    pc = "sorted" => SlotsNonDecreasing

====
